---- MODULE Spec2Model ----
(***************************************************************************)
(* A model of the interactive geospatial converter (src/main.py): the      *)
(* geocode cache (load_cache / save_cache), the geocoding batch            *)
(* (batch_geocode with its one-worker executor) and the conversion loop of *)
(* main, over successive runs of the program sharing geo_cache.json and    *)
(* coordinates.csv.                                                        *)
(*                                                                         *)
(* Spec is the program started with no cache file; SpecLoad starts it with *)
(* any content of geo_cache.json; SpecInterrupt adds an interruption of    *)
(* the batch from outside; SpecProj applies mercator_projection alone.     *)
(*                                                                         *)
(* Numbers.  A float is a sign and a magnitude counted in units of 1e-5    *)
(* degree, so that -0.0 and 0.0 are different values that compare equal,   *)
(* as they do in Python.  The input values are chosen away from the        *)
(* rounding ties of round(x, 4).                                           *)
(***************************************************************************)
EXTENDS Integers, Sequences, FiniteSets, TLC

\* ------------------------------------------------------------------ bounds
\* the most rows coordinates.csv holds
MaxRows == 2
\* the most lines typed in one interactive entry
MaxEntry == 1

\* ------------------------------------------------------- program constants
\* the bounds of a valid latitude / longitude, in units of 1e-5 degree
LatLimit == 9000000
LonLimit == 18000000
\* one unit of the 4th decimal, in units of 1e-5 degree
Unit4 == 10
\* the number of 4th-decimal units in one degree (the ".4f" fraction)
Frac4 == 10000
\* ThreadPoolExecutor(max_workers=1)
max_workers == 1
\* the latitude bound of mercator_projection, 89.9, in units of 1e-5 degree
ClampLimit == 8990000
\* pi/4 as an angle, 45 degrees, in units of 1e-5 degree
QuarterTurn == 4500000

\* ------------------------------------------------------------ cell values
Num(neg, mag) == [kind |-> "num", neg |-> neg, mag |-> mag]
\* a cell that float() does not parse ("abc")
Text == [kind |-> "text", neg |-> FALSE, mag |-> 0]

\* the rows a coordinates.csv is made of: (lat, lon)
RowA   == <<Num(FALSE, 100001), Num(FALSE, 200001)>>    \* ( 1.00001, 2.00001)
RowA2  == <<Num(FALSE, 100002), Num(FALSE, 200002)>>    \* ( 1.00002, 2.00002)
RowZN  == <<Num(TRUE, 1), Num(FALSE, 200001)>>          \* (-0.00001, 2.00001)
RowZP  == <<Num(FALSE, 1), Num(FALSE, 200001)>>         \* ( 0.00001, 2.00001)
RowOut == <<Num(FALSE, 9500000), Num(FALSE, 200001)>>   \* (95.0,     2.00001)
RowTxt == <<Text, Num(FALSE, 200001)>>                  \* ("abc",    2.00001)
Rows == {RowA, RowA2, RowZN, RowZP, RowOut, RowTxt}

\* sequences over S of length at most n
RECURSIVE SeqsUpTo(_, _)
SeqsUpTo(S, n) ==
    IF n = 0 THEN {<<>>}
    ELSE LET shorter == SeqsUpTo(S, n - 1)
         IN shorter \cup {Append(s, x) : s \in {t \in shorter : Len(t) = n - 1}, x \in S}

\* --------------------------------------------------------- float semantics
\* x == y on floats: -0.0 == 0.0
FloatEq(x, y) == x.mag = y.mag /\ (x.neg = y.neg \/ x.mag = 0)

\* lo <= x <= hi for the symmetric interval [-limit, limit]
InRange(x, limit) == x.mag <= limit

\* round(x, 4): to the nearest 4th decimal (ties to even), the sign kept, so
\* that round(-0.00001, 4) is -0.0
Round4(x) ==
    LET q == x.mag \div Unit4
        r == x.mag % Unit4
        up == (2 * r > Unit4) \/ (2 * r = Unit4 /\ q % 2 = 1)
    IN Num(x.neg, (IF up THEN q + 1 ELSE q) * Unit4)

\* f"{x:.4f}": the sign character, the integer digits and the four decimals
Fmt4(x) ==
    LET r == Round4(x)
    IN [sign |-> IF r.neg THEN "-" ELSE "",
        int  |-> (r.mag \div Unit4) \div Frac4,
        frac |-> (r.mag \div Unit4) % Frac4]

\* f"{round(lat, 4):.4f},{round(lon, 4):.4f}"
CacheKey(lat, lon) == <<Fmt4(Round4(lat)), Fmt4(Round4(lon))>>

\* the value of a float as a signed count of 4th-decimal units: what the hash
\* and the equality of a Python float see
Signed(x) == IF x.neg THEN 0 - (x.mag \div Unit4) ELSE x.mag \div Unit4

\* the tuple (round(lat, 4), round(lon, 4)) as a dict or set key
TupleKey(lat, lon) == <<Signed(Round4(lat)), Signed(Round4(lon))>>

\* ---------------------------------------------------------------- strings
\* An address value: the text and, for an address of the service, the place
\* it names.
NoPlace == <<0, 0>>
Address(lat, lon) == [kind |-> "address", of |-> TupleKey(lat, lon)]
NotFound == [kind |-> "Not found", of |-> NoPlace]
ErrorStr == [kind |-> "Error: ...", of |-> NoPlace]
Disabled == [kind |-> "Address lookup disabled", of |-> NoPlace]
Fallback == [kind |-> "Error", of |-> NoPlace]

\* ------------------------------------------------------------------ state
VARIABLES
    disk,          \* geo_cache.json
    csv,           \* coordinates.csv
    cache,         \* the global cache of the running process
    pc,            \* where main is
    entered,       \* main's new_coords, from the interactive entry
    coords,        \* main's coords
    lookup,        \* the answer to "Enable address lookup?"
    unique_coords, \* main's unique_coords
    tasks,         \* batch_geocode's new_coords
    futures,       \* the futures of the executor, one per task
    address_map,   \* main's address_map
    output_data,   \* main's output_data
    err,           \* the exception that ended the try block, or "none"
    exported,      \* converted_coordinates.csv was written by this run
    served,        \* what reverse did for each task: its outcome, or "pending"
    issued,        \* how many times reverse() was called in this run, by key
    batch,         \* batch_geocode in this run: none, empty, running, done
    cacheAtCall,   \* the cache when batch_geocode was called
    batchSave,     \* the outcome of save_cache at the end of the batch
    lastSave,      \* the outcome of the last save_cache of this run
    diskAtStart,   \* geo_cache.json when the process started
    covered        \* geo_cache.json is the cache of a process whose
                   \* batch_geocode completed for the coordinates of the
                   \* present coordinates.csv

vars == <<disk, csv, cache, pc, entered, coords, lookup, unique_coords,
          tasks, futures, address_map, output_data, err, exported, served, issued,
          batch, cacheAtCall, batchSave, lastSave, diskAtStart, covered>>

\* the variables of one process, without the cache and the files
locals == <<entered, coords, lookup, unique_coords, tasks, futures,
            address_map, output_data, exported>>
ghosts == <<served, issued, batch, cacheAtCall, batchSave, lastSave, diskAtStart,
            covered>>

\* ------------------------------------------------------------------- maps
EmptyMap == [k \in {} |-> Fallback]
Range(s) == {s[i] : i \in DOMAIN s}

\* a cache write that keeps addresses only, so that a failed lookup is tried
\* again by the next batch
CacheSet_AddressesOnly(c, key, result) ==
    IF result.kind = "address"
    THEN [k \in DOMAIN c \cup {key} |-> IF k = key THEN result ELSE c[k]]
    ELSE c

\* A cache that is not a dict: json.load gives a list for a file that holds []
\* and None for a file that holds null.  Such a value is written here as a map
\* with one marker key, which no coordinate formats to.
Mark(name) == <<[sign |-> name, int |-> 0, frac |-> 0],
                [sign |-> name, int |-> 0, frac |-> 0]>>
ListValue == [k \in {Mark("[]")} |-> Fallback]
NullValue == [k \in {Mark("null")} |-> Fallback]
IsDict(c) == c \notin {ListValue, NullValue}

\* cache_key not in cache (line 97): None is not a container, TypeError; a
\* list [] holds nothing
ContainsRaises(c) == c = NullValue
\* cache[key] = result (line 125): TypeError on a list and on None
SetItemRaises(c) == ~IsDict(c)
\* cache.get (line 265): AttributeError on a list and on None
GetRaises(c) == ~IsDict(c)

\* cache[key] = result
CacheSet(c, key, result) ==
    [k \in DOMAIN c \cup {key} |-> IF k = key THEN result ELSE c[k]]

\* cache.get(key, default)
CacheGet(c, key, default) == IF key \in DOMAIN c THEN c[key] ELSE default

\* ------------------------------------------------------------ the cache file
\* A file is its kind and, for a JSON object, its text: the members
\* "key": "value" that json.dump wrote.
Absent == [kind |-> "absent", text |-> {}]
Corrupt == [kind |-> "corrupt", text |-> {}]

\* a dump that leaves out the entries of failed lookups
Snapshot_NoFailures(c) ==
    [kind |-> "map",
     text |-> {<<k, c[k]>> : k \in {j \in DOMAIN c : c[j].kind = "address"}}]

\* json.dump(cache, f): the file it writes
Snapshot(c) ==
    CASE c = ListValue -> [kind |-> "list", text |-> {}]
      [] c = NullValue -> [kind |-> "null", text |-> {}]
      [] OTHER -> [kind |-> "map", text |-> {<<k, c[k]>> : k \in DOMAIN c}]

\* json.load(f) of a file that parses: the dict of the members of an object,
\* a list, or None
json_load(d) ==
    CASE d.kind = "list" -> ListValue
      [] d.kind = "null" -> NullValue
      [] OTHER -> [k \in {m[1] : m \in d.text} |->
                        (CHOOSE m \in d.text : m[1] = k)[2]]

\* how a file operation ends: done, open() raised, or the write raised after
\* open(..., 'w') truncated the file
SaveOutcomes == {"ok", "openfail", "writefail"}

\* load_cache: the cache after it.  readable is FALSE when open() or read()
\* raises; a missing file is skipped and a file json.load rejects raises.
load_cache(c, d, readable) ==
    IF d.kind \in {"map", "list", "null"} /\ readable THEN json_load(d) ELSE c

\* save_cache: the file after it
save_cache(c, d, outcome) ==
    CASE outcome = "ok" -> Snapshot(c)
      [] outcome = "openfail" -> d
      [] OTHER -> Corrupt

\* ------------------------------------------------------ the coordinate file
NoFile == [kind |-> "absent", rows |-> <<>>]
NoColumns == [kind |-> "nocols", rows |-> <<>>]
File(rows) == [kind |-> "rows", rows |-> rows]

\* a typed line that parses and is in range (lines 56-64)
EntryAccepted(row) ==
    /\ row[1].kind = "num" /\ row[2].kind = "num"
    /\ InRange(row[1], LatLimit)
    /\ InRange(row[2], LonLimit)

\* input_coordinates_interactively: the lines typed and how the entry ends
\* ("done" or "exit"); the list returned, <<>> standing for None too, which
\* main treats alike (if new_coords:)
input_coordinates_interactively(typed, ending) ==
    IF ending = "done" THEN SelectSeq(typed, EntryAccepted) ELSE <<>>

\* save_to_csv: the file after appending the coordinates; a file without the
\* latitude / longitude columns keeps lacking them
save_to_csv(f, coordinates) ==
    IF f.kind = "nocols" THEN f ELSE File(f.rows \o coordinates)

\* ------------------------------------------------------------ deduplication
\* round() raises TypeError on a cell that is a string
RoundRaises(cs) == \E i \in DOMAIN cs : cs[i][1].kind = "text" \/ cs[i][2].kind = "text"

\* the rounded coordinates as a list, without the set
RECURSIVE UniqueCoords_List(_)
UniqueCoords_List(cs) ==
    IF cs = <<>> THEN <<>>
    ELSE <<<<Round4(Head(cs)[1]), Round4(Head(cs)[2])>>>> \o UniqueCoords_List(Tail(cs))

\* list({(round(lat, 4), round(lon, 4)) for lat, lon in coords}): a set keeps
\* the first of the tuples that compare equal.  The list of a set has any
\* order; the order decides only which task the worker takes next, so the
\* list is kept here in the order of first occurrence and ResolveStart takes
\* any task.
RECURSIVE UniqueCoords(_)
UniqueCoords(cs) ==
    IF cs = <<>> THEN <<>>
    ELSE LET n == Len(cs)
             before == UniqueCoords(SubSeq(cs, 1, n - 1))
             t == TupleKey(cs[n][1], cs[n][2])
         IN IF \E j \in 1..(n - 1) : TupleKey(cs[j][1], cs[j][2]) = t
            THEN before
            ELSE Append(before, <<Round4(cs[n][1]), Round4(cs[n][2])>>)

\* a partition that takes a key cached with the text of a failed lookup as
\* not cached, so that the lookup is tried again
RECURSIVE NewCoords_RetryFailures(_, _)
NewCoords_RetryFailures(coordinates, c) ==
    IF coordinates = <<>> THEN <<>>
    ELSE LET lat == Head(coordinates)[1]
             lon == Head(coordinates)[2]
             cache_key == CacheKey(lat, lon)
             rest == NewCoords_RetryFailures(Tail(coordinates), c)
         IN IF cache_key \notin DOMAIN c \/ c[cache_key].kind # "address"
            THEN <<[lat |-> lat, lon |-> lon, key |-> cache_key]>> \o rest
            ELSE rest

\* batch_geocode's partition (lines 95-99): the coordinates whose key is not
\* in the cache, with their key
RECURSIVE NewCoords(_, _)
NewCoords(coordinates, c) ==
    IF coordinates = <<>> THEN <<>>
    ELSE LET lat == Head(coordinates)[1]
             lon == Head(coordinates)[2]
             cache_key == CacheKey(lat, lon)
             rest == NewCoords(Tail(coordinates), c)
         IN IF cache_key \notin DOMAIN c
            THEN <<[lat |-> lat, lon |-> lon, key |-> cache_key]>> \o rest
            ELSE rest

\* ------------------------------------------------------------- resolution
\* what reverse((lat, lon)) does: returns a location, returns None, or raises
Outcomes == {"location", "none", "raise"}

\* the calls of reverse counted by key
NoCalls == [k \in {} |-> 0]
Called(n, key) ==
    [k \in DOMAIN n \cup {key} |-> IF k \in DOMAIN n
                                   THEN (IF k = key THEN n[k] + 1 ELSE n[k])
                                   ELSE 1]

\* a future that has not run
NoKey == <<Fmt4(Num(FALSE, 0)), Fmt4(Num(FALSE, 0))>>
Pending == [state |-> "pending", exc |-> FALSE, key |-> NoKey, result |-> Fallback]

\* process_coord without its except clause: what reverse raises stays in the
\* future
process_coord_NoExcept(lat, lon, key, outcome) ==
    CASE outcome = "location" ->
            [state |-> "done", exc |-> FALSE, key |-> key, result |-> Address(lat, lon)]
      [] outcome = "none" ->
            [state |-> "done", exc |-> FALSE, key |-> key, result |-> NotFound]
      [] OTHER ->
            [state |-> "done", exc |-> TRUE, key |-> key, result |-> ErrorStr]

\* process_coord (lines 110-115) as the future it completes
process_coord(lat, lon, key, outcome) ==
    CASE outcome = "location" ->
            [state |-> "done", exc |-> FALSE, key |-> key, result |-> Address(lat, lon)]
      [] outcome = "none" ->
            [state |-> "done", exc |-> FALSE, key |-> key, result |-> NotFound]
      [] OTHER ->
            [state |-> "done", exc |-> FALSE, key |-> key, result |-> ErrorStr]

\* the mapping batch_geocode returns (lines 138-141): a dict comprehension,
\* where a later coordinate with an equal tuple overwrites an earlier one
ResultMap(coordinates, c) ==
    [t \in {TupleKey(coordinates[i][1], coordinates[i][2]) : i \in DOMAIN coordinates} |->
        LET i == CHOOSE j \in DOMAIN coordinates :
                    /\ TupleKey(coordinates[j][1], coordinates[j][2]) = t
                    /\ \A k \in DOMAIN coordinates :
                          TupleKey(coordinates[k][1], coordinates[k][2]) = t => k <= j
        IN CacheGet(c, CacheKey(coordinates[i][1], coordinates[i][2]), Fallback)]

\* ------------------------------------------------------------- conversion
\* the loop without its range check
ConvertRow_NoRangeCheck(row, c) ==
    IF row[1].kind = "text" \/ row[2].kind = "text"
    THEN <<>>
    ELSE <<[lat |-> row[1], lon |-> row[2],
            address |-> CacheGet(c, CacheKey(row[1], row[2]), Disabled)]>>

\* one row of main's loop (lines 254-278): the records it appends
ConvertRow(row, c) ==
    IF row[1].kind = "text" \/ row[2].kind = "text"
    THEN <<>>                                   \* float() raises: row skipped
    ELSE IF ~InRange(row[1], LatLimit) \/ ~InRange(row[2], LonLimit)
    THEN <<>>                                   \* skipping invalid coordinates
    ELSE IF GetRaises(c)
    THEN <<>>                                   \* cache.get raises: row skipped
    ELSE <<[lat |-> row[1], lon |-> row[2],
            address |-> CacheGet(c, CacheKey(row[1], row[2]), Disabled)]>>

RECURSIVE ConvertRows(_, _)
ConvertRows(cs, c) ==
    IF cs = <<>> THEN <<>>
    ELSE ConvertRow(Head(cs), c) \o ConvertRows(Tail(cs), c)

\* ------------------------------------------------------------------- Init
NoMap == [t \in {} |-> Fallback]

\* the variables of a process at its start, but for the coordinates
InitLocals ==
    /\ cache = EmptyMap
    /\ entered = <<>>
    /\ lookup = "unasked"
    /\ unique_coords = <<>>
    /\ tasks = <<>>
    /\ futures = <<>>
    /\ address_map = NoMap
    /\ output_data = <<>>
    /\ err = "none"
    /\ exported = FALSE
    /\ served = <<>>
    /\ issued = NoCalls
    /\ batch = "none"
    /\ cacheAtCall = EmptyMap
    /\ batchSave = "none"
    /\ lastSave = "none"
    /\ covered = FALSE

\* a process at its start, with any coordinate file
InitProcess ==
    /\ csv \in {NoFile, NoColumns} \cup {File(rows) : rows \in SeqsUpTo(Rows, MaxRows)}
    /\ pc = "start"
    /\ coords = <<>>
    /\ InitLocals

\* A first process starts with no cache file.
Init == disk = Absent /\ diskAtStart = Absent /\ InitProcess

\* an exception reaches main's except clause (lines 295-296)
Fatal(e) == pc' = "finally" /\ err' = e

\* ---------------------------------------------------------------- actions
\* "Would you like to add new coordinates? (y/n)" (lines 219-220); input()
\* raises EOFError when the input is closed
AskAdd ==
    /\ pc = "start"
    /\ \E answer \in {"y", "n", "eof"} :
          CASE answer = "y" -> pc' = "entry" /\ err' = err
            [] answer = "n" -> pc' = "load" /\ err' = err
            [] OTHER -> Fatal("EOFError")
    /\ UNCHANGED <<disk, csv, cache, locals, ghosts>>

\* input_coordinates_interactively (line 221): the lines typed, ended by
\* "done", by "exit" or by the end of the input (input() raises)
InteractiveEntry ==
    /\ pc = "entry"
    /\ \E typed \in SeqsUpTo(Rows, MaxEntry), ending \in {"done", "exit", "eof"} :
          IF ending = "eof"
          THEN Fatal("EOFError") /\ entered' = entered
          ELSE /\ entered' = input_coordinates_interactively(typed, ending)
               /\ Len(csv.rows) + Len(entered') <= MaxRows
               /\ pc' = IF entered' # <<>> THEN "savecsv" ELSE "load"
               /\ err' = err
    /\ UNCHANGED <<disk, csv, cache, coords, lookup, unique_coords, tasks,
                   futures, address_map, output_data, exported, ghosts>>

\* save_to_csv(new_coords) (lines 222-226): appends, or fails and main raises
SaveToCsv ==
    /\ pc = "savecsv"
    /\ \E written \in BOOLEAN :
          IF written
          THEN /\ csv' = save_to_csv(csv, entered)
               /\ covered' = FALSE
               /\ pc' = "load" /\ err' = err
          ELSE /\ csv' = csv /\ covered' = covered
               /\ Fatal("ValueError: Failed to save coordinates")
    /\ UNCHANGED <<disk, cache, locals, served, issued, batch, cacheAtCall,
                   batchSave, lastSave, diskAtStart>>

\* load_cache() (line 230)
LoadCache ==
    /\ pc = "load"
    /\ \E readable \in BOOLEAN : cache' = load_cache(cache, disk, readable)
    /\ pc' = "read"
    /\ UNCHANGED <<disk, csv, locals, err, ghosts>>

\* pd.read_csv and the column lookup (lines 232-244)
ReadCsv ==
    /\ pc = "read"
    /\ CASE csv.kind = "absent" ->
                Fatal("ValueError: Coordinates file not found") /\ coords' = coords
         [] csv.kind = "nocols" ->
                Fatal("ValueError: Latitude/Longitude columns not found") /\ coords' = coords
         [] OTHER -> coords' = csv.rows /\ pc' = "ask" /\ err' = err
    /\ UNCHANGED <<disk, csv, cache, entered, lookup, unique_coords, tasks,
                   futures, address_map, output_data, exported, ghosts>>

\* "Enable address lookup? (y/n)" and the deduplication (lines 246-250)
AskLookup ==
    /\ pc = "ask"
    /\ \E answer \in {"y", "n"} :
          /\ lookup' = answer
          /\ IF answer = "n"
             THEN pc' = "convert" /\ err' = err /\ unique_coords' = unique_coords
             ELSE IF RoundRaises(coords)
             THEN Fatal("TypeError") /\ unique_coords' = unique_coords
             ELSE /\ unique_coords' = UniqueCoords(coords)
                  /\ pc' = "geocode" /\ err' = err
    /\ UNCHANGED <<disk, csv, cache, entered, coords, tasks, futures,
                   address_map, output_data, exported, ghosts>>

\* a start of the batch that enters each key to resolve in the cache, with
\* the fallback as its value, before its task is submitted
BatchStart_Reserve ==
    /\ pc = "geocode"
    /\ LET new_coords == NewCoords(unique_coords, cache)
           reserved == [k \in DOMAIN cache \cup {new_coords[i].key : i \in DOMAIN new_coords} |->
                           IF k \in DOMAIN cache THEN cache[k] ELSE Fallback]
       IN /\ tasks' = new_coords
          /\ futures' = [i \in DOMAIN new_coords |-> Pending]
          /\ served' = [i \in DOMAIN new_coords |-> "pending"]
          /\ cache' = reserved
          /\ IF new_coords = <<>>
             THEN address_map' = NoMap /\ batch' = "empty" /\ pc' = "convert"
             ELSE address_map' = address_map /\ batch' = "running" /\ pc' = "batch"
    /\ cacheAtCall' = cache
    /\ UNCHANGED <<disk, csv, entered, coords, lookup, unique_coords,
                   output_data, err, exported, issued, batchSave, lastSave,
                   diskAtStart, covered>>

\* batch_geocode(unique_coords) up to the submission of the tasks (lines
\* 87-121): the partition, the early return of the empty delta
BatchStart ==
    /\ pc = "geocode"
    /\ IF unique_coords # <<>> /\ ContainsRaises(cache)
       THEN /\ Fatal("TypeError")
            /\ batch' = "raised"
            /\ UNCHANGED <<tasks, futures, served, address_map>>
       ELSE LET new_coords == NewCoords(unique_coords, cache)
            IN /\ tasks' = new_coords
               /\ futures' = [i \in DOMAIN new_coords |-> Pending]
               /\ served' = [i \in DOMAIN new_coords |-> "pending"]
               /\ err' = err
               /\ IF new_coords = <<>>
                  THEN /\ address_map' = NoMap
                       /\ batch' = "empty"
                       /\ pc' = "convert"
                  ELSE /\ address_map' = address_map
                       /\ batch' = "running"
                       /\ pc' = "batch"
    /\ cacheAtCall' = cache
    /\ UNCHANGED <<disk, csv, cache, entered, coords, lookup, unique_coords,
                   output_data, exported, issued, batchSave, lastSave,
                   diskAtStart, covered>>

\* the worker takes the next task of its queue, any task not yet taken (see
\* UniqueCoords), and calls reverse (line 112).  It goes on doing so while an
\* exception leaves the with block: the executor's shutdown waits for every
\* submitted task.
Running == {i \in DOMAIN futures : futures[i].state = "running"}

\* an executor with a thread per task: a submitted task starts at once
ResolveStart_ThreadPerTask ==
    /\ pc \in {"batch", "unwind"}
    /\ \E i \in DOMAIN futures :
          /\ futures[i].state = "pending"
          /\ futures' = [futures EXCEPT ![i].state = "running"]
          /\ issued' = Called(issued, tasks[i].key)
    /\ UNCHANGED <<disk, csv, cache, pc, entered, coords, lookup,
                   unique_coords, tasks, address_map, output_data, err, exported,
                   served, batch, cacheAtCall, batchSave, lastSave, diskAtStart,
                   covered>>

ResolveStart ==
    /\ pc \in {"batch", "unwind"}
    /\ Cardinality(Running) < max_workers
    /\ \E i \in DOMAIN futures :
          /\ futures[i].state = "pending"
          /\ futures' = [futures EXCEPT ![i].state = "running"]
          /\ issued' = Called(issued, tasks[i].key)
    /\ UNCHANGED <<disk, csv, cache, pc, entered, coords, lookup,
                   unique_coords, tasks, address_map, output_data, err, exported,
                   served, batch, cacheAtCall, batchSave, lastSave, diskAtStart,
                   covered>>

\* reverse returns or raises and process_coord completes its future
ResolveEnd ==
    /\ pc \in {"batch", "unwind"}
    /\ \E i \in Running, outcome \in Outcomes :
          /\ futures' = [futures EXCEPT
                           ![i] = process_coord(tasks[i].lat, tasks[i].lon,
                                                tasks[i].key, outcome)]
          /\ served' = [served EXCEPT ![i] = outcome]
    /\ UNCHANGED <<disk, csv, cache, pc, entered, coords, lookup,
                   unique_coords, tasks, address_map, output_data, err, exported,
                   issued, batch, cacheAtCall, batchSave, lastSave, diskAtStart,
                   covered>>

\* one turn of the as_completed loop (lines 123-126): future.result() returns
\* the pair, or raises what the task raised; the assignment raises on a cache
\* that is not a dict.  An exception leaves the loop and the with block.
Collect ==
    /\ pc = "batch"
    /\ \E i \in DOMAIN futures :
          /\ futures[i].state = "done"
          /\ futures' = [futures EXCEPT ![i].state = "taken"]
          /\ IF futures[i].exc
             THEN pc' = "unwind" /\ err' = "task" /\ batch' = "raised" /\ cache' = cache
             ELSE IF SetItemRaises(cache)
             THEN pc' = "unwind" /\ err' = "TypeError" /\ batch' = "raised" /\ cache' = cache
             ELSE /\ cache' = CacheSet(cache, futures[i].key, futures[i].result)
                  /\ pc' = pc /\ err' = err /\ batch' = batch
    /\ UNCHANGED <<disk, csv, entered, coords, lookup, unique_coords, tasks,
                   address_map, output_data, exported, served, issued,
                   cacheAtCall, batchSave, lastSave, diskAtStart, covered>>

\* the exit of the with block on an exception (line 117): shutdown(wait=True)
\* returns when the worker has run every submitted task, and the exception
\* goes on to main
ExecutorExit ==
    /\ pc = "unwind"
    /\ \A i \in DOMAIN futures : futures[i].state \in {"done", "taken"}
    /\ pc' = "finally"
    /\ UNCHANGED <<disk, csv, cache, locals, err, ghosts>>

\* an end of batch_geocode that builds the mapping from the cache as it was
\* before the results were stored
BatchFinish_BeforeCollect ==
    /\ pc = "batch"
    /\ \A i \in DOMAIN futures : futures[i].state = "taken"
    /\ \E outcome \in SaveOutcomes :
          /\ disk' = save_cache(cache, disk, outcome)
          /\ batchSave' = outcome
          /\ lastSave' = outcome
    /\ address_map' = ResultMap(unique_coords, cacheAtCall)
    /\ batch' = "done"
    /\ pc' = "convert"
    /\ UNCHANGED <<csv, cache, entered, coords, lookup, unique_coords, tasks,
                   futures, output_data, err, exported, served, issued,
                   cacheAtCall, diskAtStart, covered>>

\* the end of batch_geocode (lines 135-141): save_cache and the mapping
BatchFinish ==
    /\ pc = "batch"
    /\ \A i \in DOMAIN futures : futures[i].state = "taken"
    /\ \E outcome \in SaveOutcomes :
          /\ disk' = save_cache(cache, disk, outcome)
          /\ batchSave' = outcome
          /\ lastSave' = outcome
    /\ address_map' = ResultMap(unique_coords, cache)
    /\ batch' = "done"
    /\ pc' = "convert"
    /\ UNCHANGED <<csv, cache, entered, coords, lookup, unique_coords, tasks,
                   futures, output_data, err, exported, served, issued,
                   cacheAtCall, diskAtStart, covered>>

\* main's loop over coords (lines 253-278)
Convert ==
    /\ pc = "convert"
    /\ output_data' = ConvertRows(coords, cache)
    /\ pc' = "export"
    /\ UNCHANGED <<disk, csv, cache, entered, coords, lookup, unique_coords,
                   tasks, futures, address_map, err, exported, ghosts>>

\* the export and the map (lines 280-293): converted_coordinates.csv is
\* written, and create_optimized_map divides by len(data)
Export ==
    /\ pc = "export"
    /\ exported' = TRUE
    /\ IF output_data = <<>> THEN Fatal("ZeroDivisionError")
       ELSE pc' = "finally" /\ err' = err
    /\ UNCHANGED <<disk, csv, cache, entered, coords, lookup, unique_coords,
                   tasks, futures, address_map, output_data, ghosts>>

\* a run that saves the cache at the end of the try block only, so that a
\* fatal error skips the save
Finally_SaveOnSuccess ==
    /\ pc = "finally"
    /\ IF err = "none"
       THEN \E outcome \in SaveOutcomes :
               /\ disk' = save_cache(cache, disk, outcome)
               /\ lastSave' = outcome
       ELSE disk' = disk /\ lastSave' = lastSave
    /\ pc' = "exit"
    /\ UNCHANGED <<csv, cache, locals, err, served, issued, batch, cacheAtCall,
                   batchSave, diskAtStart, covered>>

\* finally: save_cache() (lines 298-300), and the process ends
Finally ==
    /\ pc = "finally"
    /\ \E outcome \in SaveOutcomes :
          /\ disk' = save_cache(cache, disk, outcome)
          /\ lastSave' = outcome
    /\ pc' = "exit"
    /\ UNCHANGED <<csv, cache, locals, err, served, issued, batch, cacheAtCall,
                   batchSave, diskAtStart, covered>>

\* the program is started again: a new process, the same files
NextRun ==
    /\ pc = "exit"
    /\ pc' = "start"
    /\ cache' = EmptyMap
    /\ entered' = <<>> /\ coords' = <<>> /\ lookup' = "unasked"
    /\ unique_coords' = <<>> /\ tasks' = <<>> /\ futures' = <<>>
    /\ address_map' = NoMap /\ output_data' = <<>>
    /\ err' = "none" /\ exported' = FALSE
    /\ served' = <<>> /\ issued' = NoCalls /\ batch' = "none" /\ cacheAtCall' = EmptyMap
    /\ batchSave' = "none" /\ lastSave' = "none"
    /\ diskAtStart' = disk
    /\ covered' = (batch \in {"done", "empty"} /\ disk = Snapshot(cache))
    /\ UNCHANGED <<disk, csv>>

Next ==
    \/ AskAdd \/ InteractiveEntry \/ SaveToCsv \/ LoadCache \/ ReadCsv
    \/ AskLookup \/ BatchStart \/ ResolveStart \/ ResolveEnd \/ Collect
    \/ BatchFinish \/ Convert \/ Export \/ Finally \/ NextRun

Spec == Init /\ [][Next]_vars

\* ------------------------------------------------- external interruption
\* KeyboardInterrupt is raised in the main thread while it waits in the
\* as_completed loop (lines 123-126): the with block waits for the worker,
\* except Exception (line 295) does not catch it, and finally saves the cache
Interrupt ==
    /\ pc = "batch"
    /\ pc' = "unwind"
    /\ err' = "KeyboardInterrupt"
    /\ batch' = "interrupted"
    /\ UNCHANGED <<disk, csv, cache, locals, served, issued, cacheAtCall,
                   batchSave, lastSave, diskAtStart, covered>>

\* the process is killed during the batch: nothing more runs, finally
\* included, and geo_cache.json stays as it is
Kill ==
    /\ pc = "batch"
    /\ pc' = "exit"
    /\ err' = "killed"
    /\ batch' = "interrupted"
    /\ UNCHANGED <<disk, csv, cache, locals, served, issued, cacheAtCall,
                   batchSave, lastSave, diskAtStart, covered>>

NextInterrupt == Next \/ ExecutorExit \/ Interrupt \/ Kill

\* A first process starts with no cache file and with no coordinate file or
\* one of rows in range, which a batch resolves.
BatchRows == {row \in Rows : EntryAccepted(row)}
InitInterrupt ==
    /\ disk = Absent /\ diskAtStart = Absent
    /\ csv \in {NoFile} \cup {File(rows) : rows \in SeqsUpTo(BatchRows, MaxRows)}
    /\ pc = "start"
    /\ coords = <<>>
    /\ InitLocals

SpecInterrupt == InitInterrupt /\ [][NextInterrupt]_vars

\* ------------------------------------------------------------ projection
\* a float as a signed count of units of 1e-5 degree
Deg5(x) == IF x.neg THEN 0 - x.mag ELSE x.mag

\* max(min(lat, 89.9), -89.9) (line 198)
Clamp(lat) ==
    LET m == IF ClampLimit < Deg5(lat) THEN Num(FALSE, ClampLimit) ELSE lat
    IN IF Deg5(m) < 0 - ClampLimit THEN Num(TRUE, ClampLimit) ELSE m

\* pi/4 + radians(lat)/2 (line 202), doubled and in units of 1e-5 degree
TanArg2(lat) == 2 * QuarterTurn + Deg5(lat)

\* tan(a) is a finite number above zero, and log(tan(a)) a finite number, for
\* a strictly between 0 and pi/2; at 0 tan is 0 and math.log raises
TanPositive(a2) == 0 < a2 /\ a2 < 4 * QuarterTurn

\* the projection without the clamp of the latitude
mercator_projection_NoClamp(lat, lon) ==
    [x |-> [fn |-> "R * radians", of |-> lon],
     y |-> [fn |-> "R * log(tan)", arg2 |-> TanArg2(lat)]]

\* mercator_projection (lines 196-203): x and y as the terms the code
\* computes, each a function of what it is a term of
mercator_projection(lat, lon) ==
    LET clamped == Clamp(lat)
    IN [x |-> [fn |-> "R * radians", of |-> lon],
        y |-> [fn |-> "R * log(tan)", arg2 |-> TanArg2(clamped)]]

\* the latitudes and longitudes mercator_projection is applied to: around
\* each bound of the clamp, around zero, and beyond the poles
ProjLats ==
    {Num(n, m) : n \in BOOLEAN,
                 m \in {0, 1, QuarterTurn, ClampLimit - 1, ClampLimit,
                        ClampLimit + 1, LatLimit, LatLimit + 500000}}
ProjLons == {Num(n, m) : n \in BOOLEAN, m \in {0, 200001, LonLimit}}

\* the function applied to one (lat, lon): coords holds the argument and
\* output_data the value
InitProj ==
    /\ disk = Absent /\ diskAtStart = Absent /\ csv = NoFile
    /\ pc = "project"
    /\ coords \in {<<<<lat, lon>>>> : lat \in ProjLats, lon \in ProjLons}
    /\ InitLocals

Project ==
    /\ pc = "project"
    /\ output_data' = <<mercator_projection(coords[1][1], coords[1][2])>>
    /\ pc' = "projected"
    /\ UNCHANGED <<disk, csv, cache, entered, coords, lookup, unique_coords,
                   tasks, futures, address_map, err, exported, ghosts>>

SpecProj == InitProj /\ [][Project]_vars

\* ------------------------------------------- any content of geo_cache.json
\* the dicts a cache file may hold: none, or one entry of each kind
StoredMaps ==
    {EmptyMap} \cup {CacheSet(EmptyMap, CacheKey(RowA[1], RowA[2]), v) :
                        v \in {Address(RowA[1], RowA[2]), NotFound, ErrorStr}}

\* geo_cache.json as a first process may find it: absent, not parseable, a
\* JSON list, null, or a dict
CacheFiles ==
    {Absent, Corrupt, Snapshot(ListValue), Snapshot(NullValue)}
        \cup {Snapshot(m) : m \in StoredMaps}

InitLoad == disk \in CacheFiles /\ diskAtStart = disk /\ InitProcess

NextLoad == Next \/ ExecutorExit

SpecLoad == InitLoad /\ [][NextLoad]_vars

\* ----------------------------------------------------------------- claims
\* the states of main after its conversion loop
Converted == pc = "export" \/ exported

\* the rows of coords that are numbers
Numeric(cs) == {i \in DOMAIN cs : cs[i][1].kind = "num" /\ cs[i][2].kind = "num"}

\* C1: once batch_geocode has completed for a coordinate set, a later
\* batch_geocode on the same set finds nothing to resolve: in the same process
\* the partition of the set against the cache is empty, failed lookups
\* included; and a later process that loaded the snapshot saved by the first
\* and reads the same coordinates issues no resolution call, returns the empty
\* delta and leaves the cache unchanged.
C1_SameCache ==
    batch \in {"done", "empty"} => NewCoords(unique_coords, cache) = <<>>
C1_LaterProcess ==
    (pc = "geocode" /\ covered /\ diskAtStart.kind = "map" /\ cache = json_load(diskAtStart))
        => /\ pc' = "convert"
           /\ address_map' = NoMap
           /\ cache' = cache
           /\ issued' = NoCalls
           /\ tasks' = <<>>
C1_IdempotentRerun == [](C1_SameCache) /\ [][C1_LaterProcess]_vars

\* a later process has found nothing to resolve for coordinates whose first
\* resolution failed
C1_Witness ==
    /\ pc = "convert" /\ batch = "empty" /\ covered
    /\ unique_coords # <<>>
    /\ \E k \in DOMAIN cache : cache[k] \in {NotFound, ErrorStr}
    /\ cache = json_load(diskAtStart)

\* C2: every key of the cache file before a run is in the cache file after
\* the run, whenever both are readable snapshots.
C2_NeverRemoved ==
    (pc = "exit" /\ diskAtStart.kind = "map" /\ disk.kind = "map")
        => DOMAIN json_load(diskAtStart) \subseteq DOMAIN json_load(disk)

C4_FailureIsolation ==
    /\ err # "task"
    /\ batch = "running" => pc = "batch"
    /\ \A i \in DOMAIN futures :
          futures[i].state = "taken" =>
              /\ tasks[i].key \in DOMAIN cache
              /\ served[i] = "location" =>
                     cache[tasks[i].key] = Address(tasks[i].lat, tasks[i].lon)
              /\ served[i] \in {"none", "raise"} =>
                     cache[tasks[i].key] \in {NotFound, ErrorStr}
    /\ batch = "done" =>
          \A i \in DOMAIN tasks :
              /\ futures[i].state = "taken"
              /\ served[i] # "pending"
              /\ address_map[TupleKey(tasks[i].lat, tasks[i].lon)] = cache[tasks[i].key]

\* a batch has ended in which one lookup raised and another returned an address
C4_Witness ==
    /\ batch = "done"
    /\ \E i, j \in DOMAIN tasks :
          /\ served[i] = "raise" /\ served[j] = "location"
          /\ cache[tasks[i].key] = ErrorStr
          /\ cache[tasks[j].key].kind = "address"

\* C5: in a run without the address lookup every record has the address
\* "Address lookup disabled".
C5_DisabledPlaceholder ==
    (Converted /\ lookup = "n") =>
        \A n \in DOMAIN output_data : output_data[n].address = Disabled

\* C6: in a run with the address lookup, once the batch has completed, no
\* record has the address "Address lookup disabled".
C6_ResolvedAddress ==
    (Converted /\ lookup = "y" /\ batch \in {"done", "empty"}) =>
        \A n \in DOMAIN output_data : output_data[n].address # Disabled


\* a row with -90 <= lat <= 90 and -180 <= lon <= 180
ValidRow(row) ==
    /\ row[1].kind = "num" /\ row[2].kind = "num"
    /\ 0 - LatLimit <= Deg5(row[1]) /\ Deg5(row[1]) <= LatLimit
    /\ 0 - LonLimit <= Deg5(row[2]) /\ Deg5(row[2]) <= LonLimit

\* the (lat, lon) of the valid rows, in order
RECURSIVE ValidPairs(_)
ValidPairs(cs) ==
    IF cs = <<>> THEN <<>>
    ELSE (IF ValidRow(Head(cs)) THEN <<<<Head(cs)[1], Head(cs)[2]>>>> ELSE <<>>)
            \o ValidPairs(Tail(cs))

\* C7: a run that has read coordinates with at least one valid row and has
\* asked for the lookup, enabled or not, ends without a fatal error, with the
\* export done and one record per valid row, whatever invalid rows the file
\* holds.
C7_ValidationNonFatal ==
    (pc = "exit" /\ lookup # "unasked" /\ ValidPairs(coords) # <<>>) =>
        /\ err = "none"
        /\ exported
        /\ Len(output_data) = Len(ValidPairs(coords))

\* C8: every run ends with a save_cache after its last cache write, and
\* every batch that resolved something ends with one: when the write
\* succeeds the file is the snapshot of the cache.
C8_FlushOnExit ==
    /\ pc = "exit" => lastSave # "none"
    /\ (pc = "exit" /\ lastSave = "ok") => disk = Snapshot(cache)
    /\ batch = "done" => batchSave # "none"
    /\ (batch = "done" /\ batchSave = "ok" /\ pc # "exit") => disk = Snapshot(cache)

\* a run that ended with a fatal error after a batch has saved its cache
C8_Witness ==
    /\ pc = "exit" /\ err # "none" /\ lastSave = "ok"
    /\ batch = "done"
    /\ cache # EmptyMap /\ disk = Snapshot(cache)

\* C9: two coordinates have the same key exactly when their rounded
\* latitudes are equal and their rounded longitudes are equal, and the key of
\* the rounded coordinate (the write site) is the key of the coordinate (the
\* read site).
C9_KeyEquivalence ==
    \A i, j \in Numeric(coords) :
        /\ (CacheKey(coords[i][1], coords[i][2]) = CacheKey(coords[j][1], coords[j][2]))
              <=> (/\ FloatEq(Round4(coords[i][1]), Round4(coords[j][1]))
                   /\ FloatEq(Round4(coords[i][2]), Round4(coords[j][2])))
        /\ CacheKey(Round4(coords[i][1]), Round4(coords[i][2]))
              = CacheKey(coords[i][1], coords[i][2])

\* C10: after the conversion loop the records are the valid rows, one each
\* and in order, with the row's latitude and longitude.
C10_OneToOne ==
    Converted =>
        /\ Len(output_data) <= Len(coords)
        /\ [n \in DOMAIN output_data |-> <<output_data[n].lat, output_data[n].lon>>]
              = ValidPairs(coords)

\* a file with a valid row twice, or a valid row and an invalid one, has
\* been converted
C10_Witness ==
    /\ Converted
    /\ Len(coords) = 2
    /\ \/ Len(output_data) = 1
       \/ Len(output_data) = 2 /\ coords[1] = coords[2]

\* C11: whatever geo_cache.json holds when the process starts (nothing, a
\* dict, bytes that do not parse, or JSON that is not an object), after
\* load_cache the cache is a dict, the stored one when the file was read and
\* the empty one otherwise; and a run over numeric rows of which one at least
\* is in range ends without a fatal error, with a record for every such row.
C11_LoadTolerant ==
    /\ pc \notin {"start", "entry", "savecsv", "load"}
          => /\ IsDict(cache)
             /\ (pc = "read" /\ diskAtStart.kind # "map") => cache = EmptyMap
             /\ (pc = "read" /\ diskAtStart.kind = "map")
                   => cache \in {EmptyMap, json_load(diskAtStart)}
    /\ (pc = "exit" /\ coords # <<>> /\ Numeric(coords) = DOMAIN coords
           /\ ValidPairs(coords) # <<>>)
          => /\ err = "none"
             /\ Len(output_data) = Len(ValidPairs(coords))

C14_Clamping ==
    pc = "projected" =>
        LET lat == coords[1][1]
            lon == coords[1][2]
            p == output_data[1]
        IN /\ p = mercator_projection(Clamp(lat), lon)
           /\ InRange(Clamp(lat), ClampLimit)
           /\ TanPositive(p.y.arg2)
           /\ InRange(lat, ClampLimit) => p.y.arg2 = TanArg2(lat)
           /\ ~InRange(lat, ClampLimit)
                 => p.y.arg2 = TanArg2(Num(lat.neg, ClampLimit))

\* a latitude beyond the south pole has been projected
C14_Witness ==
    /\ pc = "projected"
    /\ Deg5(coords[1][1]) < 0 - LatLimit
    /\ output_data[1].y.arg2 = 2 * QuarterTurn - ClampLimit

\* C15: when batch_geocode had at least one coordinate to resolve, the mapping
\* it returns has exactly one entry per rounded input coordinate, those found
\* in the cache at the call and those resolved by the batch alike; each entry
\* is what the cache holds for the coordinate's key after the batch, and none
\* is the fallback "Error".
C15_ResultMapping ==
    batch = "done" =>
        /\ tasks # <<>>
        /\ DOMAIN address_map =
              {TupleKey(unique_coords[i][1], unique_coords[i][2]) : i \in DOMAIN unique_coords}
        /\ \A i \in DOMAIN unique_coords :
              LET t == TupleKey(unique_coords[i][1], unique_coords[i][2])
                  k == CacheKey(unique_coords[i][1], unique_coords[i][2])
              IN /\ k \in DOMAIN cache
                 /\ address_map[t] = cache[k]
                 /\ address_map[t] # Fallback

\* a batch has returned a mapping for one coordinate the cache held at the
\* call and one it resolved
C15_Witness ==
    /\ batch = "done"
    /\ \E i, j \in DOMAIN unique_coords :
          /\ CacheKey(unique_coords[i][1], unique_coords[i][2]) \in DOMAIN cacheAtCall
          /\ CacheKey(unique_coords[j][1], unique_coords[j][2]) \notin DOMAIN cacheAtCall
          /\ address_map[TupleKey(unique_coords[j][1], unique_coords[j][2])].kind = "address"

\* the result of the resolution of task i, once reverse has returned or raised
Resolved(i) ==
    process_coord(tasks[i].lat, tasks[i].lon, tasks[i].key, served[i]).result

\* the entry of key k with value v is one the batch found at its call, or the
\* result of a task of the batch whose resolution is complete
CompleteEntry(k, v, before) ==
    \/ k \in DOMAIN before /\ before[k] = v
    \/ \E i \in DOMAIN tasks :
          /\ tasks[i].key = k
          /\ served[i] # "pending"
          /\ futures[i].state \in {"done", "taken"}
          /\ v = Resolved(i)

\* C16: from the call of batch_geocode on, interrupted or not, every entry
\* the batch added to the cache is the result of a completed resolution of its
\* key; a key whose resolution has not completed is not in the cache; and the
\* cache file, whenever it is readable, and the snapshot saved at exit in
\* particular, holds only entries it had before and such completed entries.
C16_NoPartialEntries ==
    batch \in {"running", "done", "interrupted"} =>
        /\ \A k \in DOMAIN cache : CompleteEntry(k, cache[k], cacheAtCall)
        /\ \A i \in DOMAIN tasks :
              futures[i].state \in {"pending", "running"}
                  => tasks[i].key \notin DOMAIN cache
        /\ disk.kind = "map" =>
              \A k \in DOMAIN json_load(disk) :
                  \/ CompleteEntry(k, json_load(disk)[k], cacheAtCall)
                  \/ CompleteEntry(k, json_load(disk)[k], json_load(diskAtStart))
        /\ (pc = "exit" /\ lastSave = "ok") => json_load(disk) = cache

\* a batch of two lookups was interrupted after it stored the first result:
\* the snapshot saved at exit has that entry and not the other
C16_Witness ==
    /\ batch = "interrupted" /\ err = "KeyboardInterrupt"
    /\ pc = "exit" /\ lastSave = "ok"
    /\ \E i, j \in DOMAIN tasks :
          /\ futures[i].state = "taken"
          /\ tasks[i].key \in DOMAIN json_load(disk)
          /\ futures[j].state = "done"
          /\ tasks[j].key \notin DOMAIN json_load(disk)

\* a step of the worker thread: a task starts its call of reverse, or ends it
WorkerStep ==
    \E i \in DOMAIN futures \cap DOMAIN futures' :
        \/ futures[i].state = "pending" /\ futures'[i].state = "running"
        \/ futures[i].state = "running" /\ futures'[i].state = "done"

\* a turn of the main thread's as_completed loop that stores a result
CollectStep ==
    \E i \in DOMAIN futures \cap DOMAIN futures' :
        /\ futures[i].state = "done" /\ futures'[i].state = "taken"
        /\ cache' = CacheSet(cache, futures[i].key, futures[i].result)

\* C17: at most one call of reverse is in flight at any moment, however many
\* tasks were submitted; a step of the worker leaves the cache as it is; and
\* every change of the cache during a batch is the main thread's store of a
\* finished task's result.
C17_OneInFlight == Cardinality(Running) <= 1
C17_SingleWriter ==
    /\ WorkerStep => (cache' = cache /\ ~CollectStep)
    /\ (pc = "batch" /\ cache' # cache) => CollectStep
C17_Serialized == [](C17_OneInFlight) /\ [][C17_SingleWriter]_vars

\* the worker is in a call of reverse while another submitted task waits in
\* its queue
C17_Witness ==
    /\ pc = "batch"
    /\ Cardinality(Running) = 1
    /\ \E i \in DOMAIN futures : futures[i].state = "pending"

\* C18: from the call of batch_geocode to its return, every entry the cache
\* had at the call is there with the value it had, an address or the text of
\* a failed lookup alike; the entries added are for keys the cache did not
\* have; and no task is submitted, and reverse is not called, for a key the
\* cache had at the call.
C18_Frame ==
    batch # "none" =>
        /\ \A k \in DOMAIN cacheAtCall : k \in DOMAIN cache /\ cache[k] = cacheAtCall[k]
        /\ \A k \in DOMAIN cache \ DOMAIN cacheAtCall :
              \E i \in DOMAIN tasks : tasks[i].key = k
        /\ \A i \in DOMAIN tasks : tasks[i].key \notin DOMAIN cacheAtCall
        /\ \A k \in DOMAIN issued : k \notin DOMAIN cacheAtCall

\* a batch has returned that was called with the text of a failed lookup in
\* the cache for one of its coordinates, and that resolved another
C18_Witness ==
    /\ batch = "done"
    /\ DOMAIN cache # DOMAIN cacheAtCall
    /\ \E i \in DOMAIN unique_coords :
          LET k == CacheKey(unique_coords[i][1], unique_coords[i][2])
          IN k \in DOMAIN cacheAtCall /\ cacheAtCall[k] \in {NotFound, ErrorStr}
====
